---- MODULE Spec2Model ----
(***************************************************************************)
(* Model of mrjob/tools/emr/s3_tmpwatch.py: main, s3_cleanup, process_time. *)
(* Strings are sequences of one-character strings.  Durations (timedelta)   *)
(* and instants (datetime) are integers counting seconds.  One bucket is    *)
(* modelled; a path is the key part of its s3:// URI.                       *)
(***************************************************************************)
EXTENDS Integers, Sequences, FiniteSets, TLC

VARIABLES entry, pc, err, exit_code, options, args, path_idx, time_arg,
          result, glob_path, time_old, dry_run, paths, keys, bucket, now,
          trace

vars == <<entry, pc, err, exit_code, options, args, path_idx, time_arg,
          result, glob_path, time_old, dry_run, paths, keys, bucket, now,
          trace>>

\* ------------------------------------------------------------------ bounds
\* longest <time-untouched> string handed to process_time
MaxLen == 3
\* longest <time-untouched> string on main's command line
MaxArgLen == 2
\* most URIs on main's command line
MaxPaths == 2
\* most objects in the bucket when a scan starts
MaxObjs == 3
\* last_modified instants are 0..MaxMtime
MaxMtime == 2
\* thresholds handed to s3_cleanup directly are 1..MaxThreshold seconds
MaxThreshold == 2
\* how far the wall clock advances during one scan
MaxTicks == 1

\* ----------------------------------------------------------------- strings
Digits == {"0", "1"}
TimeChars == {"0", "1", "-", " ", "m", "h", "d", "x"}

StringsUpTo(chars, n) == UNION {[1..k -> chars] : k \in 0..n}

DigitVal(c) == IF c = "1" THEN 1 ELSE 0

KeyRank(c) == IF c = "a" THEN 1 ELSE 2

RECURSIVE Lstrip(_)
Lstrip(s) == IF s # <<>> /\ Head(s) = " " THEN Lstrip(Tail(s)) ELSE s

RECURSIVE Rstrip(_)
Rstrip(s) ==
    IF s # <<>> /\ s[Len(s)] = " " THEN Rstrip(SubSeq(s, 1, Len(s) - 1))
    ELSE s

RECURSIVE DecimalValue(_)
DecimalValue(s) ==
    IF s = <<>> THEN 0
    ELSE 10 * DecimalValue(SubSeq(s, 1, Len(s) - 1)) + DigitVal(s[Len(s)])

AllDigits(s) == s # <<>> /\ \A i \in 1..Len(s) : s[i] \in Digits

\* Python's int(str): surrounding whitespace is stripped, one leading sign
\* is accepted, the rest must be a non-empty run of decimal digits;
\* anything else raises ValueError.
int(s) ==
    LET t == Rstrip(Lstrip(s))
        neg == t # <<>> /\ Head(t) = "-"
        body == IF neg THEN Tail(t) ELSE t
    IN  IF AllDigits(body)
        THEN [exc |-> "none",
              val |-> IF neg THEN 0 - DecimalValue(body) ELSE DecimalValue(body)]
        ELSE [exc |-> "ValueError", val |-> 0]

\* datetime.timedelta(days=, hours=, minutes=) in seconds
timedelta(days, hours, minutes) == days * 86400 + hours * 3600 + minutes * 60

Returned(secs) == [exc |-> "none", val |-> secs]
Raised(name) == [exc |-> name, val |-> 0]

\* process_time with the m and h branches exchanged
process_time_swapped(time) ==
    IF time = <<>> THEN Raised("IndexError")
    ELSE LET last == time[Len(time)]
             front == SubSeq(time, 1, Len(time) - 1)
         IN  IF last = "m"
             THEN IF int(front).exc # "none" THEN Raised(int(front).exc)
                  ELSE Returned(timedelta(0, int(front).val, 0))
             ELSE IF last = "h"
             THEN IF int(front).exc # "none" THEN Raised(int(front).exc)
                  ELSE Returned(timedelta(0, 0, int(front).val))
             ELSE IF last = "d"
             THEN IF int(front).exc # "none" THEN Raised(int(front).exc)
                  ELSE Returned(timedelta(int(front).val, 0, 0))
             ELSE IF int(time).exc # "none" THEN Raised(int(time).exc)
                  ELSE Returned(timedelta(0, int(time).val, 0))

\* time[-1] on the empty string raises IndexError; int() raises ValueError
process_time(time) ==
    IF time = <<>> THEN Raised("IndexError")
    ELSE LET last == time[Len(time)]
             front == SubSeq(time, 1, Len(time) - 1)
         IN  IF last = "m"
             THEN IF int(front).exc # "none" THEN Raised(int(front).exc)
                  ELSE Returned(timedelta(0, 0, int(front).val))
             ELSE IF last = "h"
             THEN IF int(front).exc # "none" THEN Raised(int(front).exc)
                  ELSE Returned(timedelta(0, int(front).val, 0))
             ELSE IF last = "d"
             THEN IF int(front).exc # "none" THEN Raised(int(front).exc)
                  ELSE Returned(timedelta(int(front).val, 0, 0))
             ELSE IF int(time).exc # "none" THEN Raised(int(time).exc)
                  ELSE Returned(timedelta(0, int(time).val, 0))

\* ----------------------------------------------------------------- storage
Keys == {<<"a">>, <<"b">>, <<"a", "a">>, <<"a", "b">>, <<"b", "a">>}

\* the paths and globs a scan is started on
GlobPaths == {<<"a">>, <<"b">>, <<"a", "b">>, <<"?">>, <<"*", "a">>}

\* the URIs main is started on
MainPaths == {<<"a">>, <<"?">>}

\* key.last_modified: an ISO-8601 string; ok is FALSE for text that is no
\* timestamp, t is the instant a well-formed one denotes
LastModifieds ==
    [ok : {TRUE}, t : 0..MaxMtime] \cup {[ok |-> FALSE, t |-> 0]}

Buckets ==
    UNION {[ks -> LastModifieds] :
              ks \in {x \in SUBSET Keys : Cardinality(x) <= MaxObjs}}

MainBucket == [k \in {<<"a">>, <<"a", "b">>} |-> [ok |-> TRUE, t |-> 0]]

NowStart == MaxMtime + 1

IsPrefix(p, s) == Len(p) <= Len(s) /\ SubSeq(s, 1, Len(p)) = p

\* S3 lists keys in ascending byte order
RECURSIVE KeyLess(_, _)
KeyLess(s, t) ==
    IF s = <<>> THEN t # <<>>
    ELSE IF t = <<>> THEN FALSE
    ELSE IF Head(s) # Head(t) THEN KeyRank(Head(s)) < KeyRank(Head(t))
    ELSE KeyLess(Tail(s), Tail(t))

RECURSIVE Sorted(_)
Sorted(ks) ==
    IF ks = {} THEN <<>>
    ELSE LET m == CHOOSE k \in ks : \A o \in ks \ {k} : KeyLess(k, o)
         IN  <<m>> \o Sorted(ks \ {m})

\* boto Bucket.list(prefix): the keys that start with prefix, each with the
\* last_modified the listing reports.  A listing is read when its loop
\* starts (one page of results); deletes made later do not change it.
BucketList(b, prefix) ==
    LET names == Sorted({k \in DOMAIN b : IsPrefix(prefix, k)})
    IN  [i \in 1..Len(names) |->
            [name |-> names[i], last_modified |-> b[names[i]]]]

IsWild(c) == c \in {"*", "?"}

HasWildcard(g) == \E i \in 1..Len(g) : IsWild(g[i])

\* the part of a glob before its first wildcard
RECURSIVE GlobBase(_)
GlobBase(g) ==
    IF g = <<>> \/ IsWild(Head(g)) THEN <<>>
    ELSE <<Head(g)>> \o GlobBase(Tail(g))

RECURSIVE fnmatch(_, _)
fnmatch(name, pat) ==
    IF pat = <<>> THEN name = <<>>
    ELSE IF Head(pat) = "*"
    THEN fnmatch(name, Tail(pat))
         \/ (name # <<>> /\ fnmatch(Tail(name), pat))
    ELSE IF Head(pat) = "?"
    THEN name # <<>> /\ fnmatch(Tail(name), Tail(pat))
    ELSE name # <<>> /\ Head(name) = Head(pat)
         /\ fnmatch(Tail(name), Tail(pat))

\* a key matches a path spec: a glob by fnmatch, a plain path as a prefix
Matches(key, g) ==
    IF HasWildcard(g) THEN fnmatch(key, g) ELSE IsPrefix(g, key)

\* runner.fs.ls(glob_path): the paths of the objects that match glob_path
ls(b, g) ==
    LET base == IF HasWildcard(g) THEN GlobBase(g) ELSE g
    IN  Sorted({k \in DOMAIN b : IsPrefix(base, k) /\ Matches(k, g)})

iso8601_to_datetime(lm) ==
    IF lm.ok THEN Returned(lm.t) ELSE Raised("ValueError")

Event(op, key, n) == [op |-> op, key |-> key, n |-> n]

StorageOps == {"runner", "ls", "list", "delete"}

\* ----------------------------------------------------- s3_cleanup, per key
\* key_step with "age >= time_old" at line 103
key_step_ge(key, nowv, thr, dry, del_ok) ==
    LET last_modified == iso8601_to_datetime(key.last_modified)
        age == nowv - last_modified.val
        seen == <<Event("examine", key.name, age)>>
        logged == seen \o <<Event("log", key.name, age)>>
    IN  IF last_modified.exc # "none"
        THEN [events |-> <<Event("bad_timestamp", key.name, 0)>>,
              deleted |-> FALSE, exc |-> last_modified.exc]
        ELSE IF age >= thr
        THEN IF ~dry
             THEN IF del_ok
                  THEN [events |-> logged \o <<Event("delete", key.name, 1)>>,
                        deleted |-> TRUE, exc |-> "none"]
                  ELSE [events |-> logged \o <<Event("delete", key.name, 0)>>,
                        deleted |-> FALSE, exc |-> "S3ResponseError"]
             ELSE [events |-> logged, deleted |-> FALSE, exc |-> "none"]
        ELSE [events |-> seen, deleted |-> FALSE, exc |-> "none"]

\* key_step without the "if not dry_run" of line 106
key_step_nodry(key, nowv, thr, dry, del_ok) ==
    LET last_modified == iso8601_to_datetime(key.last_modified)
        age == nowv - last_modified.val
        seen == <<Event("examine", key.name, age)>>
        logged == seen \o <<Event("log", key.name, age)>>
    IN  IF last_modified.exc # "none"
        THEN [events |-> <<Event("bad_timestamp", key.name, 0)>>,
              deleted |-> FALSE, exc |-> last_modified.exc]
        ELSE IF age > thr
        THEN IF TRUE
             THEN IF del_ok
                  THEN [events |-> logged \o <<Event("delete", key.name, 1)>>,
                        deleted |-> TRUE, exc |-> "none"]
                  ELSE [events |-> logged \o <<Event("delete", key.name, 0)>>,
                        deleted |-> FALSE, exc |-> "S3ResponseError"]
             ELSE [events |-> logged, deleted |-> FALSE, exc |-> "none"]
        ELSE [events |-> seen, deleted |-> FALSE, exc |-> "none"]

\* key_step with a failed key.delete() caught and passed over
key_step_swallow(key, nowv, thr, dry, del_ok) ==
    LET last_modified == iso8601_to_datetime(key.last_modified)
        age == nowv - last_modified.val
        seen == <<Event("examine", key.name, age)>>
        logged == seen \o <<Event("log", key.name, age)>>
    IN  IF last_modified.exc # "none"
        THEN [events |-> <<Event("bad_timestamp", key.name, 0)>>,
              deleted |-> FALSE, exc |-> last_modified.exc]
        ELSE IF age > thr
        THEN IF ~dry
             THEN IF del_ok
                  THEN [events |-> logged \o <<Event("delete", key.name, 1)>>,
                        deleted |-> TRUE, exc |-> "none"]
                  ELSE [events |-> logged \o <<Event("delete", key.name, 0)>>,
                        deleted |-> FALSE, exc |-> "none"]
             ELSE [events |-> logged, deleted |-> FALSE, exc |-> "none"]
        ELSE [events |-> seen, deleted |-> FALSE, exc |-> "none"]

\* One pass of the inner loop body on one listed key: what is logged, whether
\* the object is gone afterwards, and the exception that leaves the loop.
\* nowv is the clock datetime.utcnow() reads; del_ok is whether the backend
\* carries out key.delete().
key_step(key, nowv, thr, dry, del_ok) ==
    LET last_modified == iso8601_to_datetime(key.last_modified)
        age == nowv - last_modified.val
        seen == <<Event("examine", key.name, age)>>
        logged == seen \o <<Event("log", key.name, age)>>
    IN  IF last_modified.exc # "none"
        THEN [events |-> <<Event("bad_timestamp", key.name, 0)>>,
              deleted |-> FALSE, exc |-> last_modified.exc]
        ELSE IF age > thr
        THEN IF ~dry
             THEN IF del_ok
                  THEN [events |-> logged \o <<Event("delete", key.name, 1)>>,
                        deleted |-> TRUE, exc |-> "none"]
                  ELSE [events |-> logged \o <<Event("delete", key.name, 0)>>,
                        deleted |-> FALSE, exc |-> "S3ResponseError"]
             ELSE [events |-> logged, deleted |-> FALSE, exc |-> "none"]
        ELSE [events |-> seen, deleted |-> FALSE, exc |-> "none"]

\* --------------------------------------------------------------- main, args
OptionDests == {"quiet", "verbose", "test"}

\* attribute lookup on the optparse Values object
getattr(opts, name) ==
    IF name \in DOMAIN opts THEN Returned(opts[name])
    ELSE Raised("AttributeError")

\* the argument check with "len(args) < 1"
ArgsMissing_one(a) == Len(a) < 1

\* "if not args or len(args) < 2"
ArgsMissing(a) == a = <<>> \/ Len(a) < 2

NoResult == [exc |-> "unset", val |-> 0]

Fail(name, code) ==
    /\ pc' = "error"
    /\ err' = name
    /\ exit_code' = code

\* ------------------------------------------------------------------- Init
InitCommon ==
    /\ err = "none"
    /\ exit_code = -1
    /\ path_idx = 0
    /\ result = NoResult
    /\ paths = <<>>
    /\ keys = <<>>
    /\ now = NowStart
    /\ trace = <<>>

\* python -m mrjob.tools.emr.s3_tmpwatch [-t] <time-untouched> <URIs>,
\* as optparse hands it over: the option values and the positional args
InitMain ==
    /\ entry = "main"
    /\ pc = "main"
    /\ options \in {o \in [OptionDests -> BOOLEAN] :
                       ~o["quiet"] /\ ~o["verbose"]}
    /\ args \in {<<>>} \cup
                {<<t>> \o p : t \in StringsUpTo(TimeChars, MaxArgLen),
                              p \in StringsUpTo(MainPaths, MaxPaths)}
    /\ time_arg = <<>>
    /\ glob_path = <<>>
    /\ time_old = 0
    /\ dry_run = FALSE
    /\ bucket = MainBucket
    /\ InitCommon

\* s3_cleanup(glob_path, time_old, dry_run) called as a library function
InitCleanup ==
    /\ entry = "s3_cleanup"
    /\ pc = "s3_cleanup"
    /\ options = <<>>
    /\ args = <<>>
    /\ time_arg = <<>>
    /\ glob_path \in GlobPaths
    /\ time_old \in 1..MaxThreshold
    /\ dry_run \in BOOLEAN
    /\ bucket \in Buckets
    /\ InitCommon

\* process_time(time) called on its own
InitParse ==
    /\ entry = "process_time"
    /\ pc = "process_time"
    /\ options = <<>>
    /\ args = <<>>
    /\ time_arg \in StringsUpTo(TimeChars, MaxLen)
    /\ glob_path = <<>>
    /\ time_old = 0
    /\ dry_run = FALSE
    /\ bucket = <<>>
    /\ InitCommon

Init == InitMain \/ InitCleanup \/ InitParse

\* ---------------------------------------------------------------- actions
\* main, lines 71-75
MainCheckArgs ==
    /\ pc = "main"
    /\ IF ArgsMissing(args)
       THEN Fail("SystemExit", 2)
       ELSE pc' = "main_time" /\ UNCHANGED <<err, exit_code>>
    /\ UNCHANGED <<entry, options, args, path_idx, time_arg, result,
                   glob_path, time_old, dry_run, paths, keys, bucket, now,
                   trace>>

\* main, line 77
MainProcessTime ==
    /\ pc = "main_time"
    /\ LET r == IF args = <<>> THEN Raised("IndexError")
                ELSE process_time(args[1])
       IN  /\ result' = r
           /\ IF r.exc # "none"
              THEN Fail(r.exc, 1) /\ UNCHANGED <<time_old, path_idx>>
              ELSE /\ pc' = "main_loop"
                   /\ time_old' = r.val
                   /\ path_idx' = 2
                   /\ UNCHANGED <<err, exit_code>>
    /\ UNCHANGED <<entry, options, args, time_arg, glob_path, dry_run,
                   paths, keys, bucket, now, trace>>

\* main, lines 79-82: the next URI of args[1:], or the end of main
MainLoop ==
    /\ pc = "main_loop"
    /\ IF path_idx > Len(args)
       THEN /\ pc' = "done"
            /\ exit_code' = 0
            /\ UNCHANGED <<err, glob_path, dry_run>>
       ELSE LET d == getattr(options, "text")
            IN  IF d.exc # "none"
                THEN Fail(d.exc, 1) /\ UNCHANGED <<glob_path, dry_run>>
                ELSE /\ pc' = "s3_cleanup"
                     /\ glob_path' = args[path_idx]
                     /\ dry_run' = d.val
                     /\ UNCHANGED <<err, exit_code>>
    /\ UNCHANGED <<entry, options, args, path_idx, time_arg, result,
                   time_old, paths, keys, bucket, now, trace>>

\* s3_cleanup, lines 91-96: the runner, the header line, runner.fs.ls
CleanupBegin ==
    /\ pc = "s3_cleanup"
    /\ \E ls_ok \in BOOLEAN :
          IF ls_ok
          THEN /\ paths' = ls(bucket, glob_path)
               /\ trace' = trace \o <<Event("runner", <<>>, 0),
                                       Event("ls", glob_path, 1)>>
               /\ pc' = "outer"
               /\ UNCHANGED <<err, exit_code>>
          ELSE /\ trace' = trace \o <<Event("runner", <<>>, 0),
                                       Event("ls", glob_path, 0)>>
               /\ Fail("S3ResponseError", 1)
               /\ UNCHANGED paths
    /\ UNCHANGED <<entry, options, args, path_idx, time_arg, result,
                   glob_path, time_old, dry_run, keys, bucket, now>>

\* s3_cleanup, lines 96-100: the next listed path, bucket.list(key_name)
NextPath ==
    /\ pc = "outer"
    /\ paths # <<>>
    /\ \E list_ok \in BOOLEAN :
          IF list_ok
          THEN /\ keys' = BucketList(bucket, Head(paths))
               /\ trace' = trace \o <<Event("list", Head(paths), 1)>>
               /\ pc' = IF keys' = <<>> THEN "outer" ELSE "inner"
               /\ UNCHANGED <<err, exit_code>>
          ELSE /\ trace' = trace \o <<Event("list", Head(paths), 0)>>
               /\ Fail("S3ResponseError", 1)
               /\ UNCHANGED keys
    /\ paths' = Tail(paths)
    /\ UNCHANGED <<entry, options, args, path_idx, time_arg, result,
                   glob_path, time_old, dry_run, bucket, now>>

\* s3_cleanup, lines 100-107: the next key of the current listing
ExamineKey ==
    /\ pc = "inner"
    /\ keys # <<>>
    /\ \E tick \in 0..1, del_ok \in BOOLEAN :
          LET key == Head(keys)
              r == key_step(key, now + tick, time_old, dry_run, del_ok)
          IN  /\ now + tick <= NowStart + MaxTicks
              /\ now' = IF key.last_modified.ok THEN now + tick ELSE now
              /\ trace' = trace \o r.events
              /\ bucket' = IF r.deleted
                           THEN [k \in DOMAIN bucket \ {key.name} |-> bucket[k]]
                           ELSE bucket
              /\ IF r.exc # "none"
                 THEN Fail(r.exc, 1)
                 ELSE /\ pc' = IF Tail(keys) = <<>> THEN "outer" ELSE "inner"
                      /\ UNCHANGED <<err, exit_code>>
    /\ keys' = Tail(keys)
    /\ UNCHANGED <<entry, options, args, path_idx, time_arg, result,
                   glob_path, time_old, dry_run, paths>>

\* s3_cleanup returns: to main's loop, or to the caller
CleanupReturn ==
    /\ pc = "outer"
    /\ paths = <<>>
    /\ IF entry = "main"
       THEN /\ pc' = "main_loop"
            /\ path_idx' = path_idx + 1
            /\ UNCHANGED exit_code
       ELSE /\ pc' = "done"
            /\ exit_code' = 0
            /\ UNCHANGED path_idx
    /\ UNCHANGED <<entry, err, options, args, time_arg, result, glob_path,
                   time_old, dry_run, paths, keys, bucket, now, trace>>

\* process_time, lines 119-127
CallProcessTime ==
    /\ pc = "process_time"
    /\ result' = process_time(time_arg)
    /\ IF result'.exc # "none"
       THEN Fail(result'.exc, 1)
       ELSE pc' = "done" /\ exit_code' = 0 /\ UNCHANGED err
    /\ UNCHANGED <<entry, options, args, path_idx, time_arg, glob_path,
                   time_old, dry_run, paths, keys, bucket, now, trace>>

Next ==
    \/ MainCheckArgs
    \/ MainProcessTime
    \/ MainLoop
    \/ CleanupBegin
    \/ NextPath
    \/ ExamineKey
    \/ CleanupReturn
    \/ CallProcessTime

Spec == Init /\ [][Next]_vars

\* ============================================================= properties
Units == {"m", "h", "d"}

\* an integer literal: an optional minus sign, then one or more digits
IsIntegerLiteral(s) ==
    AllDigits(IF s # <<>> /\ Head(s) = "-" THEN Tail(s) ELSE s)

\* the value of a run of digits, read left to right
RECURSIVE ReadDigits(_, _)
ReadDigits(acc, s) ==
    IF s = <<>> THEN acc
    ELSE ReadDigits(10 * acc + (IF Head(s) = "1" THEN 1 ELSE 0), Tail(s))

LiteralValue(s) ==
    IF Head(s) = "-" THEN 0 - ReadDigits(0, Tail(s)) ELSE ReadDigits(0, s)

HasUnit(s) == s # <<>> /\ s[Len(s)] \in Units

MagnitudeText(s) == IF HasUnit(s) THEN SubSeq(s, 1, Len(s) - 1) ELSE s

\* an integer magnitude followed by at most one unit character
WellFormedDuration(s) == IsIntegerLiteral(MagnitudeText(s))

UnitSeconds(s) ==
    IF ~HasUnit(s) THEN 3600
    ELSE IF s[Len(s)] = "m" THEN 60
    ELSE IF s[Len(s)] = "h" THEN 3600
    ELSE 24 * 3600

Ended == pc \in {"done", "error"}

ProcessTimeCalled == entry = "process_time" /\ Ended

StorageEvents == {i \in 1..Len(trace) : trace[i].op \in StorageOps}

ObjectEvents ==
    {i \in 1..Len(trace) :
        trace[i].op \in {"examine", "bad_timestamp", "log", "delete"}}

FollowedBy(i, op) ==
    /\ i < Len(trace)
    /\ trace[i + 1].op = op
    /\ trace[i + 1].key = trace[i].key

PrecededBy(i, op) ==
    /\ i > 1
    /\ trace[i - 1].op = op
    /\ trace[i - 1].key = trace[i].key

\* C1: in a scan with dry_run false that finishes without error, each
\* examined object is passed to delete if and only if its age, taken from
\* the clock read at its comparison, is strictly greater than the threshold.
C1_DeleteIffOlder ==
    (entry = "s3_cleanup" /\ ~dry_run /\ pc = "done") =>
        /\ \A i \in 1..Len(trace) :
              trace[i].op = "examine" =>
                  ((trace[i].n > time_old) <=>
                      (FollowedBy(i, "log") /\ FollowedBy(i + 1, "delete")))
        /\ \A i \in 1..Len(trace) :
              trace[i].op = "delete" =>
                  /\ PrecededBy(i, "log")
                  /\ PrecededBy(i - 1, "examine")
                  /\ trace[i - 2].n > time_old

\* C1 witness: a finished scan kept an object aged exactly the threshold
\* and deleted one aged threshold + 1.
C1_Witness ==
    /\ entry = "s3_cleanup" /\ ~dry_run /\ pc = "done"
    /\ \E i \in 1..Len(trace) :
          /\ trace[i].op = "examine" /\ trace[i].n = time_old
          /\ trace[i].key \in DOMAIN bucket
    /\ \E i \in 1..Len(trace) :
          /\ trace[i].op = "delete" /\ trace[i - 2].n = time_old + 1
          /\ trace[i].key \notin DOMAIN bucket

\* C2: with dry_run true delete is never invoked; with either value of
\* dry_run a 'Deleting' line is logged for an examined object exactly when
\* its age exceeds the threshold, and every delete call comes right after
\* the log line for its object.
C2_DryRunLogsOnly ==
    entry = "s3_cleanup" =>
        /\ dry_run => \A i \in 1..Len(trace) : trace[i].op # "delete"
        /\ \A i \in 1..Len(trace) :
              trace[i].op = "examine" =>
                  ((trace[i].n > time_old) <=> FollowedBy(i, "log"))
        /\ \A i \in 1..Len(trace) :
              trace[i].op = "log" =>
                  PrecededBy(i, "examine") /\ trace[i - 1].n > time_old
        /\ \A i \in 1..Len(trace) :
              trace[i].op = "delete" => PrecededBy(i, "log")

\* C2 witness: a finished dry run logged an old object, passed over a young
\* one silently, and every object is still in the bucket.
C2_Witness ==
    /\ entry = "s3_cleanup" /\ dry_run /\ pc = "done"
    /\ \E i \in 1..Len(trace) : trace[i].op = "log"
    /\ \E i \in 1..Len(trace) :
          trace[i].op = "examine" /\ trace[i].n <= time_old
    /\ \A i \in ObjectEvents : trace[i].key \in DOMAIN bucket

\* C3: main, given a well-formed duration and at least one path spec, scans
\* the path specs with dry_run equal to the parsed -t/--test flag.
C3_TestFlagIsDryRun ==
    (/\ entry = "main" /\ Ended
     /\ Len(args) >= 2
     /\ WellFormedDuration(args[1])) =>
        /\ \E i \in 1..Len(trace) :
              trace[i].op = "ls" /\ trace[i].key = args[2]
        /\ dry_run = options["test"]

\* C4: for an integer magnitude N followed by at most one unit character,
\* process_time returns N minutes for m, N hours for h, N days for d and
\* N hours without a suffix.
C4_ExactDuration ==
    (ProcessTimeCalled /\ WellFormedDuration(time_arg)) =>
        /\ pc = "done"
        /\ result = Returned(LiteralValue(MagnitudeText(time_arg))
                                * UnitSeconds(time_arg))

\* C4 witness: "10d" came back as ten days.
C4_Witness ==
    /\ ProcessTimeCalled
    /\ time_arg = <<"1", "0", "d">>
    /\ result = Returned(10 * 24 * 3600)

\* C5: process_time fails on every malformed duration string and never
\* returns a duration for one.
C5_MalformedRejected ==
    (ProcessTimeCalled /\ ~WellFormedDuration(time_arg)) =>
        pc = "error" /\ result.exc # "none"

\* C6: every duration process_time returns is non-negative.
C6_NonNegative ==
    (ProcessTimeCalled /\ result.exc = "none") => result.val >= 0

\* C7: when main gets a malformed duration or fewer than two positional
\* arguments, no storage operation is ever issued in the run, and the run
\* ends in error with a non-zero exit code.
C7_RejectBeforeStorage ==
    (entry = "main"
     /\ (Len(args) < 2 \/ ~WellFormedDuration(args[1]))) =>
        /\ StorageEvents = {}
        /\ Ended => (pc = "error" /\ exit_code > 0)

\* C7 witness: main ended in error on the malformed duration "1x" with a
\* path spec given.
C7_Witness ==
    /\ entry = "main" /\ pc = "error" /\ exit_code > 0
    /\ Len(args) >= 2
    /\ args[1] = <<"1", "x">>
    /\ err = "ValueError"

IsLs(e) == e.op = "ls"

LsKeys ==
    LET l == SelectSeq(trace, IsLs) IN [i \in 1..Len(l) |-> l[i].key]

IsFailure(e) == e.op = "bad_timestamp" \/ (e.op \in StorageOps /\ e.n = 0)

\* C8: main lists the path specs in command-line order; it ends with all of
\* them listed, or in error right after a failed storage call with no later
\* path spec listed.
C8_InOrderAbortOnError ==
    (/\ entry = "main" /\ Ended
     /\ Len(args) >= 2
     /\ result.exc = "none") =>
        /\ Len(LsKeys) <= Len(args) - 1
        /\ LsKeys = SubSeq(args, 2, Len(LsKeys) + 1)
        /\ pc = "done" => Len(LsKeys) = Len(args) - 1
        /\ pc = "error" => (trace # <<>> /\ IsFailure(trace[Len(trace)]))

\* C9: a timestamp that does not parse, or a delete that fails, ends the run
\* in error at once: nothing is examined, logged or deleted after it, delete
\* is called once on the failing object, and objects deleted before it stay
\* deleted.
C9_ObjectFailureIsFatal ==
    \A i \in 1..Len(trace) :
        /\ (trace[i].op = "bad_timestamp"
            \/ (trace[i].op = "delete" /\ trace[i].n = 0)) =>
              /\ i = Len(trace)
              /\ pc = "error" /\ exit_code > 0
              /\ Cardinality({j \in 1..Len(trace) :
                     trace[j].op = "delete" /\ trace[j].key = trace[i].key})
                 <= 1
        /\ (trace[i].op = "delete" /\ trace[i].n = 1) =>
              trace[i].key \notin DOMAIN bucket

\* C9 witness: the scan stopped on a failed delete after an earlier delete
\* went through, with listed paths still waiting.
C9_Witness ==
    /\ pc = "error"
    /\ trace # <<>>
    /\ trace[Len(trace)].op = "delete" /\ trace[Len(trace)].n = 0
    /\ \E j \in 1..Len(trace) : trace[j].op = "delete" /\ trace[j].n = 1
    /\ paths # <<>>

\* C10: a scan only examines, logs or deletes objects whose path matches the
\* path spec, and examines and logs each object at most once.
C10_OnlyMatchingOnce ==
    entry = "s3_cleanup" =>
        /\ \A i \in ObjectEvents : Matches(trace[i].key, glob_path)
        /\ \A i, j \in ObjectEvents :
              (trace[i].op = trace[j].op /\ trace[i].key = trace[j].key)
                  => i = j

====
